---- MODULE Spec2Model ----
(***************************************************************************)
(* State-machine model of streamlit_app.py: the session state kept by      *)
(* main() (chatbot, messages, initialized), the StreamlitReActChatBot      *)
(* methods, and the external collaborators (file system, document loader,  *)
(* index, query engines, language model, retriever) as nondeterministic    *)
(* outcomes.                                                               *)
(* The script runs modelled are those past the credential check of lines  *)
(* 312-316: without OPENAI_API_KEY st.stop() ends every run before any     *)
(* handler.                                                                *)
(*                                                                         *)
(* A Python string is a sequence of symbols.  A symbol is either one       *)
(* character of an answer text or one fixed piece of a literal of the      *)
(* source (the literals are written in ASCII).  String concatenation and   *)
(* f-string interpolation are \o.                                          *)
(***************************************************************************)
EXTENDS Integers, Sequences, FiniteSets, TLC

VARIABLES
    index,        \* chatbot.index: NoneV or the built index
    agent,        \* chatbot.agent: NoneV or the query engine
    initialized,  \* st.session_state.initialized
    messages,     \* st.session_state.messages
    op,           \* the handler (or method) that ran last
    arg,          \* its input
    ret,          \* the value it returned
    calls,        \* the external calls it made, in order, each with its outcome
    shown         \* the st.error / st.warning / st.success notes it rendered, in order

vars == <<index, agent, initialized, messages, op, arg, ret, calls, shown>>

(***************************************************************************)
(* Bounds of the model.                                                    *)
(***************************************************************************)
MaxLen == 4       \* longest answer text enumerated exhaustively
MaxTurns == 2     \* submits kept in one history before a clear is needed
MaxDocs == 1      \* most documents the loader returns

NoneV == [none |-> TRUE]

(***************************************************************************)
(* Strings.                                                                *)
(***************************************************************************)
RECURSIVE Join(_, _)
Join(lines, sep) ==
    IF Len(lines) = 0 THEN <<>>
    ELSE IF Len(lines) = 1 THEN lines[1]
    ELSE lines[1] \o sep \o Join(Tail(lines), sep)

\* Python's  pat in s
Contains(s, pat) ==
    \E i \in 1..(Len(s) - Len(pat) + 1) : SubSeq(s, i, i + Len(pat) - 1) = pat

\* Python's  s.endswith(suffix)
EndsWith(s, suffix) ==
    /\ Len(s) >= Len(suffix)
    /\ SubSeq(s, Len(s) - Len(suffix) + 1, Len(s)) = suffix

StartsWith(s, prefix) ==
    /\ Len(s) >= Len(prefix)
    /\ SubSeq(s, 1, Len(prefix)) = prefix

\* One external call with its outcome.  out is the value returned, or the
\* exception message when ok is FALSE.
Call(fn, k, a, ok, out) == [fn |-> fn, k |-> k, arg |-> a, ok |-> ok, out |-> out]

\* One rendered notification.
Note(kind, text) == [kind |-> kind, text |-> text]

\* What a method hands back to the model: its return value, the external
\* calls it made and the notifications it rendered.
Result(r, c, s) == [ret |-> r, calls |-> c, shown |-> s]

(***************************************************************************)
(* _contains_english (lines 163-173).                                      *)
(***************************************************************************)
Lower == {"a","b","c","d","e","f","g","h","i","j","k","l","m",
          "n","o","p","q","r","s","t","u","v","w","x","y","z"}
Upper == {"A","B","C","D","E","F","G","H","I","J","K","L","M",
          "N","O","P","Q","R","S","T","U","V","W","X","Y","Z"}

\* the character class [a-zA-Z]
\* (faulty variant: the class [a-z] alone)
IsLatinLowerOnly(c) == c \in Lower
IsLatin(c) == c \in Lower \cup Upper

\* the quantifier {3,}
MinRun == 3

\* Greedy match of [a-zA-Z]* at position i: the index of the last letter
\* taken (i - 1 when none is).
RECURSIVE RunEnd(_, _)
RunEnd(text, i) ==
    IF i <= Len(text) /\ IsLatin(text[i]) THEN RunEnd(text, i + 1) ELSE i - 1

\* re.findall(r'[a-zA-Z]{3,}', text): scan left to right; at i take the
\* greedy match when it has MinRun letters and go on after it, else go on
\* at i + 1.
RECURSIVE FindAllFrom(_, _)
FindAllFrom(text, i) ==
    IF i > Len(text) THEN <<>>
    ELSE LET e == RunEnd(text, i)
         IN  IF e - i + 1 >= MinRun
             THEN <<SubSeq(text, i, e)>> \o FindAllFrom(text, e + 1)
             ELSE FindAllFrom(text, i + 1)

english_matches(text) == FindAllFrom(text, 1)

japanese_exceptions ==
    { <<"p","d","f">>, <<"P","D","F">>, <<"a","u","commerce">>,
      <<"a","u">>, <<"D","C">>, <<"A","P","I">> }

filtered_matches(text) ==
    SelectSeq(english_matches(text), LAMBDA m : m \notin japanese_exceptions)

contains_english(text) == Len(filtered_matches(text)) > 0

(***************************************************************************)
(* _force_japanese_response (lines 175-197).  llm is the outcome of        *)
(* Settings.llm.complete: [ok, out], out the completion object or the      *)
(* exception message.                                                      *)
(***************************************************************************)
PromptHead == <<"translate-prompt-head:">>
PromptTail == <<":translate-prompt-tail">>
translate_prompt(response) == PromptHead \o response \o PromptTail

TranslateWarning == <<"translate-error: ">>

\* str(CompletionResponse) is its text
StrOf(completion) == completion.text

\* (faulty variant: the rewrite is re-checked and dropped when it still holds a
\* disallowed run, and a failure renders no warning)
force_japanese_responseRecheck(response, llm) ==
    IF ~contains_english(response)
    THEN Result(response, <<>>, <<>>)
    ELSE LET c == <<Call("complete", 0, translate_prompt(response), llm.ok, llm.out)>>
         IN  IF llm.ok /\ ~contains_english(StrOf(llm.out))
             THEN Result(StrOf(llm.out), c, <<>>)
             ELSE Result(response, c, <<>>)
force_japanese_response(response, llm) ==
    IF ~contains_english(response)
    THEN Result(response, <<>>, <<>>)
    ELSE LET c == <<Call("complete", 0, translate_prompt(response), llm.ok, llm.out)>>
         IN  IF llm.ok
             THEN Result(StrOf(llm.out), c, <<>>)
             ELSE Result(response, c,
                         <<Note("warning", TranslateWarning \o llm.out)>>)

(***************************************************************************)
(* _get_source_info (lines 263-293).  idx is self.index; retr is the       *)
(* outcome of retriever.retrieve: [ok, out], out the list of nodes or the  *)
(* exception message.                                                      *)
(***************************************************************************)
SourceTopK == 3

NoSourcesMsg == <<"[sources] no reference documents found.">>
SourcesHeader == <<"[reference documents / sources]">>
SourcesError == <<"[sources retrieval error]">>
UnknownDocument == "unknown document"
NoneTypeError == <<"'NoneType' object has no attribute">>
NL == "\n"

\* dict.get(key, default)
Get(metadata, key, default) ==
    IF key \in DOMAIN metadata THEN metadata[key] ELSE default

Digits3(n) ==
    <<ToString((n \div 100) % 10), ToString((n \div 10) % 10), ToString(n % 10)>>

\* f"{score:.3f}" of a score given in thousandths
Format3f(score) == <<ToString(score \div 1000), ".">> \o Digits3(score % 1000)

source_info(i, node) ==
    LET file_name == Get(node.metadata, "file_name", UnknownDocument)
        page_info == Get(node.metadata, "page_label", "")
        base == IF page_info # ""
                THEN <<ToString(i), ". ", file_name, " (page: ", page_info, ")">>
                ELSE <<ToString(i), ". ", file_name>>
    IN  IF "score" \in DOMAIN node
        THEN base \o <<" - relevance: ">> \o Format3f(node.score)
        ELSE base

\* enumerate(nodes, 1)
\* (faulty variant: enumerate(nodes), ranks from 0)
sourcesZeroBased(nodes) == [i \in 1..Len(nodes) |-> source_info(i - 1, nodes[i])]
sources(nodes) == [i \in 1..Len(nodes) |-> source_info(i, nodes[i])]

get_source_info(idx, question, retr) ==
    IF idx = NoneV
    THEN Result(SourcesError \o NoneTypeError, <<>>, <<>>)
    ELSE LET c == <<Call("retrieve", SourceTopK, question, retr.ok, retr.out)>>
         IN  IF ~retr.ok THEN Result(SourcesError \o retr.out, c, <<>>)
             ELSE IF Len(retr.out) = 0 THEN Result(NoSourcesMsg, c, <<>>)
             ELSE Result(SourcesHeader \o <<NL>> \o Join(sources(retr.out), <<NL>>),
                         c, <<>>)

(***************************************************************************)
(* _fallback_search (lines 229-261) and ask_with_react (lines 199-227).    *)
(* env holds the outcomes of the external calls one question can make:     *)
(* primary and fallback ([ok, out] of engine.query, out the response       *)
(* object or the exception message), llm and retr.                         *)
(***************************************************************************)
PrimaryTopK == 3
FallbackTopK == 5

DirectSearchMarker == <<"[direct-search answer]", NL>>
SearchError == <<"search error: ">>
NotInitializedError == <<"error: the agent is not initialized. load the PDF files.">>
NotInitializedAnswer == <<"error: the agent is not initialized. press the load button.">>
ReactSlowWarning == <<"ReAct takes long, answering by direct search...">>
ErrorOccurred == <<"an error occurred: ">>
Sep == <<NL, NL>>

IterSignature1 == <<"Reached", " ", "max", " ", "iterations">>
IterSignature2 == <<"max_iterations">>

\* (faulty variants: the marker left out; the conformance filter left out)
fallback_searchNoMarker(idx, question, env) ==
    IF idx = NoneV
    THEN Result(SearchError \o NoneTypeError, <<>>, <<>>)
    ELSE LET q == <<Call("query", FallbackTopK, question,
                         env.fallback.ok, env.fallback.out)>>
         IN  IF ~env.fallback.ok
             THEN Result(SearchError \o env.fallback.out, q, <<>>)
             ELSE LET j == force_japanese_response(StrOf(env.fallback.out), env.llm)
                      s == get_source_info(idx, question, env.retr)
                  IN  Result(j.ret \o Sep \o s.ret,
                             q \o j.calls \o s.calls, j.shown \o s.shown)
fallback_searchNoFilter(idx, question, env) ==
    IF idx = NoneV
    THEN Result(SearchError \o NoneTypeError, <<>>, <<>>)
    ELSE LET q == <<Call("query", FallbackTopK, question,
                         env.fallback.ok, env.fallback.out)>>
         IN  IF ~env.fallback.ok
             THEN Result(SearchError \o env.fallback.out, q, <<>>)
             ELSE LET s == get_source_info(idx, question, env.retr)
                  IN  Result(DirectSearchMarker \o StrOf(env.fallback.out)
                                 \o Sep \o s.ret,
                             q \o s.calls, s.shown)
fallback_search(idx, question, env) ==
    IF idx = NoneV
    THEN Result(SearchError \o NoneTypeError, <<>>, <<>>)
    ELSE LET q == <<Call("query", FallbackTopK, question,
                         env.fallback.ok, env.fallback.out)>>
         IN  IF ~env.fallback.ok
             THEN Result(SearchError \o env.fallback.out, q, <<>>)
             ELSE LET j == force_japanese_response(StrOf(env.fallback.out), env.llm)
                      s == get_source_info(idx, question, env.retr)
                  IN  Result(DirectSearchMarker \o j.ret \o Sep \o s.ret,
                             q \o j.calls \o s.calls, j.shown \o s.shown)

\* the except branch's notification (lines 220-227)
\* (faulty variant: the error text rendered whatever the message)
failure_noteAlways(error_msg) == Note("error", ErrorOccurred \o error_msg)
failure_note(error_msg) ==
    IF \/ Contains(error_msg, IterSignature1)
       \/ Contains(error_msg, IterSignature2)
    THEN Note("warning", ReactSlowWarning)
    ELSE Note("error", ErrorOccurred \o error_msg)

ask_with_react(agentV, idx, question, env) ==
    IF agentV = NoneV
    THEN Result(NotInitializedAnswer, <<>>, <<Note("error", NotInitializedError)>>)
    ELSE LET q == <<Call("query", agentV.similarity_top_k, question,
                         env.primary.ok, env.primary.out)>>
         IN  IF env.primary.ok
             THEN LET j == force_japanese_response(StrOf(env.primary.out), env.llm)
                      s == get_source_info(idx, question, env.retr)
                  IN  Result(j.ret \o Sep \o s.ret,
                             q \o j.calls \o s.calls, j.shown \o s.shown)
             ELSE LET error_msg == env.primary.out
                      f == fallback_search(idx, question, env)
                  IN  Result(f.ret, q \o f.calls, <<failure_note(error_msg)>> \o f.shown)

(***************************************************************************)
(* _create_react_agent (lines 98-161) and load_pdfs_with_react (lines      *)
(* 58-96).  Both return the new values of self.index and self.agent with   *)
(* the method's own return value.                                          *)
(***************************************************************************)
PdfSuffix == <<".pdf">>

FolderNotFound == <<"folder not found: ">>
PdfFolder == <<"pdfs">>
NoPdfFound == <<"no PDF file found">>
PdfFound == <<" PDF files found:">>
DocumentsLoaded == <<" documents loaded">>
IndexCreated == <<"index created">>
NoIndexError == <<"the index is not created">>
EngineReady == <<"query engine ready">>
AgentReady == <<"ReAct agent ready">>
AgentCreateError == <<"ReAct agent creation error: ">>
TracebackNote == <<"details: traceback">>
LoadError == <<"error: ">>

QueryEngine == [similarity_top_k |-> PrimaryTopK, response_mode |-> "compact"]

SelfState(r, idx, agentV, c, s) ==
    [ret |-> r, index |-> idx, agent |-> agentV, calls |-> c, shown |-> s]

\* (faulty variant: True returned from the except branch)
create_react_agentAlwaysTrue(idx, agentV, eng) ==
    LET c == <<Call("as_query_engine", PrimaryTopK, <<>>, eng.ok, eng.out)>>
    IN  IF eng.ok
        THEN SelfState(TRUE, idx, QueryEngine, c,
                       <<Note("success", EngineReady), Note("success", AgentReady)>>)
        ELSE SelfState(TRUE, idx, agentV, c,
                       <<Note("error", AgentCreateError \o eng.out)>>)
create_react_agent(idx, agentV, eng) ==
    IF idx = NoneV
    THEN SelfState(FALSE, idx, agentV, <<>>, <<Note("error", NoIndexError)>>)
    ELSE LET c == <<Call("as_query_engine", PrimaryTopK, <<>>, eng.ok, eng.out)>>
         IN  IF eng.ok
             THEN SelfState(TRUE, idx, QueryEngine, c,
                            <<Note("success", EngineReady), Note("success", AgentReady)>>)
             ELSE SelfState(FALSE, idx, agentV, c,
                            <<Note("error", AgentCreateError \o eng.out),
                              Note("error", TracebackNote)>>)

pdf_files(listing) == {f \in listing : EndsWith(f, PdfSuffix)}

load_pdfs_with_react(idx, agentV, env) ==
    LET exists == Call("exists", 0, PdfFolder, TRUE, env.exists)
        listdir == Call("listdir", 0, PdfFolder, TRUE, env.listing)
        load == Call("load_data", 0, PdfFolder, env.load.ok, env.load.out)
        build == Call("from_documents", 0, <<>>, env.build.ok, env.build.out)
        found == Note("success", <<ToString(Cardinality(pdf_files(env.listing)))>> \o PdfFound)
    IN  IF ~env.exists
        THEN SelfState(FALSE, idx, agentV, <<exists>>,
                       <<Note("error", FolderNotFound \o PdfFolder)>>)
        ELSE IF pdf_files(env.listing) = {}
        THEN SelfState(FALSE, idx, agentV, <<exists, listdir>>,
                       <<Note("error", NoPdfFound)>>)
        ELSE IF ~env.load.ok
        THEN SelfState(FALSE, idx, agentV, <<exists, listdir, load>>,
                       <<found, Note("error", LoadError \o env.load.out)>>)
        ELSE LET loaded == Note("success", <<ToString(env.load.out)>> \o DocumentsLoaded)
             IN  IF ~env.build.ok
                 THEN SelfState(FALSE, idx, agentV, <<exists, listdir, load, build>>,
                                <<found, loaded, Note("error", LoadError \o env.build.out)>>)
                 ELSE LET newIndex == [docs |-> env.load.out]
                          a == create_react_agent(newIndex, agentV, env.eng)
                      IN  SelfState(a.ret, newIndex, a.agent,
                                    <<exists, listdir, load, build>> \o a.calls,
                                    <<found, loaded, Note("success", IndexCreated)>>
                                        \o a.shown)

(***************************************************************************)
(* The history-clear handler's memory reset (lines 378-393).  mem is the   *)
(* shape the agent's memory attribute turns out to have, resetOk whether   *)
(* the reset attempt returns normally, eng the outcome of the engine       *)
(* creation that _create_react_agent may run.                              *)
(***************************************************************************)
MemoryShapes == {"no_memory", "reset", "clear", "chat_history", "other"}

MemoryClearWarning == <<"memory clear failed, recreating the agent: ">>
AttributeError == <<"object has no attribute 'memory'">>
ResetError == <<"reset failed">>

\* (faulty variant: the agent dropped before it is rebuilt)
clear_memoryDropsAgent(idx, agentV, mem, resetOk, eng) ==
    IF agentV = NoneV
    THEN SelfState(TRUE, idx, agentV, <<>>, <<>>)
    ELSE LET a == create_react_agent(idx, NoneV, eng)
         IN  SelfState(TRUE, idx, a.agent, a.calls, a.shown)
clear_memory(idx, agentV, mem, resetOk, eng) ==
    IF agentV = NoneV
    THEN SelfState(TRUE, idx, agentV, <<>>, <<>>)
    ELSE IF mem = "no_memory"
    THEN LET a == create_react_agent(idx, agentV, eng)
         IN  SelfState(TRUE, idx, a.agent, a.calls,
                       <<Note("warning", MemoryClearWarning \o AttributeError)>>
                           \o a.shown)
    ELSE IF mem = "other"
    THEN LET a == create_react_agent(idx, agentV, eng)
         IN  SelfState(TRUE, idx, a.agent, a.calls, a.shown)
    ELSE LET c == <<Call("memory." \o mem, 0, <<>>, resetOk,
                         IF resetOk THEN <<>> ELSE ResetError)>>
         IN  IF resetOk
             THEN SelfState(TRUE, idx, agentV, c, <<>>)
             ELSE LET a == create_react_agent(idx, agentV, eng)
                  IN  SelfState(TRUE, idx, a.agent, c \o a.calls,
                                <<Note("warning", MemoryClearWarning \o ResetError)>>
                                    \o a.shown)

(***************************************************************************)
(* The outcomes the external collaborators can produce.                    *)
(***************************************************************************)
JaChar == "kana"      \* one non-Latin character

Ok(v) == [ok |-> TRUE, out |-> v]
Raise(msg) == [ok |-> FALSE, out |-> msg]

Questions == { <<"q1">>, <<"q2">> }

AnswerTexts == { <<JaChar, JaChar>>, <<"a", "b", "c", JaChar>> }

PrimaryErrors ==
    { <<"Reached", " ", "max", " ", "iterations", ".">>,
      <<"agent: ", "max_iterations", " exceeded">>,
      <<"timeout">> }
FallbackErrors == { <<"timeout">>, <<"rate limit">> }

QueryOutcomes(errors) ==
    {Ok([text |-> t]) : t \in AnswerTexts} \cup {Raise(m) : m \in errors}

LlmOutcomes(texts) ==
    {Ok([text |-> t]) : t \in texts} \cup {Raise(<<"rate limit">>)}

Metadata ==
    { [file_name |-> "a.pdf", page_label |-> "1"],
      [file_name |-> "b.pdf", page_label |-> ""],
      [file_name |-> "b.pdf"],
      [page_label |-> "2"] }
Scores == {87, 1000}
Nodes == {[metadata |-> m, score |-> sc] : m \in Metadata, sc \in Scores}

RECURSIVE SeqsUpTo(_, _)
SeqsUpTo(S, n) ==
    IF n = 0 THEN {<<>>}
    ELSE LET shorter == SeqsUpTo(S, n - 1)
         IN  shorter \cup {Append(t, x) : t \in {u \in shorter : Len(u) = n - 1}, x \in S}

SampleNode == [metadata |-> [file_name |-> "a.pdf", page_label |-> "1"], score |-> 87]

RetrOutcomes == {Ok(<<SampleNode>>), Raise(<<"retrieval failed">>)}

\* Each behaviour of the collaborators is enumerated once: the outcome of a
\* call that is never made (the fallback query after a primary success, the
\* rewrite and the retrieval after two failed queries) is held fixed.
AskEnvs ==
    { e \in [primary : QueryOutcomes(PrimaryErrors),
             fallback : QueryOutcomes(FallbackErrors),
             llm : LlmOutcomes({<<JaChar>>}),
             retr : RetrOutcomes] :
        /\ e.primary.ok => e.fallback = Raise(<<"timeout">>)
        /\ (~e.primary.ok /\ ~e.fallback.ok) =>
               (e.llm = Raise(<<"rate limit">>) /\ e.retr = Raise(<<"retrieval failed">>)) }

FileNames == { <<"a", ".pdf">>, <<"b", ".PDF">>, <<"c.pdf", ".txt">> }

EngOutcomes == {Ok(<<>>), Raise(<<"engine error">>)}

\* As in AskEnvs, the outcome of a call that is never made is held fixed: no
\* reset attempt runs on a memory without a reset method, no engine is created
\* after a reset that returned.
ClearEnvs ==
    { e \in [mem : MemoryShapes, resetOk : BOOLEAN, eng : EngOutcomes] :
        /\ e.mem \in {"no_memory", "other"} => e.resetOk
        /\ (e.mem \notin {"no_memory", "other"} /\ e.resetOk) => e.eng = Ok(<<>>) }

InitEnvs ==
    [exists : BOOLEAN,
     listing : SUBSET FileNames,
     load : {Ok(n) : n \in 0..MaxDocs} \cup {Raise(<<"load error">>)},
     build : {Ok(<<>>), Raise(<<"build error">>)},
     eng : EngOutcomes]

(***************************************************************************)
(* main() (lines 295-394): one action per user-triggered script run.       *)
(***************************************************************************)
FullyJapanese == <<"fully Japanese answer">>
EnglishDetected == <<"english detected: ">>

LatinCount(text) == Cardinality({i \in 1..Len(text) : IsLatin(text[i])})

\* the sidebar indicator (lines 364-370); the ratio is kept as the pair
\* it is computed from
language_indicator(response) ==
    IF contains_english(response)
    THEN Note("warning", EnglishDetected
                  \o <<ToString(IF Len(response) > 0 THEN LatinCount(response) ELSE 0),
                       "/", ToString(Len(response))>>)
    ELSE Note("success", FullyJapanese)

Turn(role, content) == [role |-> role, content |-> content]

Init ==
    /\ index = NoneV
    /\ agent = NoneV
    /\ initialized = FALSE
    /\ messages = <<>>
    /\ op = "none"
    /\ arg = <<>>
    /\ ret = <<>>
    /\ calls = <<>>
    /\ shown = <<>>

\* lines 338-344
InitButton ==
    /\ ~initialized
    /\ \E env \in InitEnvs :
         LET r == load_pdfs_with_react(index, agent, env)
         IN  /\ index' = r.index
             /\ agent' = r.agent
             /\ initialized' = IF r.ret THEN TRUE ELSE initialized
             /\ op' = "init"
             /\ arg' = <<>>
             /\ ret' = r.ret
             /\ calls' = r.calls
             /\ shown' = r.shown
    /\ UNCHANGED messages

\* lines 352-372
Submit ==
    /\ initialized
    /\ Len(messages) < 2 * MaxTurns
    /\ \E prompt \in Questions, env \in AskEnvs :
         LET r == ask_with_react(agent, index, prompt, env)
         IN  /\ messages' = messages \o <<Turn("user", prompt),
                                           Turn("assistant", r.ret)>>
             /\ op' = "submit"
             /\ arg' = prompt
             /\ ret' = r.ret
             /\ calls' = r.calls
             /\ shown' = r.shown \o <<language_indicator(r.ret)>>
    /\ UNCHANGED <<index, agent, initialized>>

\* lines 375-394
ClearButton ==
    /\ initialized
    /\ \E env \in ClearEnvs :
         LET r == clear_memory(index, agent, env.mem, env.resetOk, env.eng)
         IN  /\ messages' = <<>>
             /\ index' = r.index
             /\ agent' = r.agent
             /\ op' = "clear"
             /\ arg' = <<>>
             /\ ret' = <<>>
             /\ calls' = r.calls
             /\ shown' = r.shown
    /\ UNCHANGED initialized

Next == InitButton \/ Submit \/ ClearButton

Spec == Init /\ [][Next]_vars

(***************************************************************************)
(* The Language Conformance Filter on its own: every answer text up to     *)
(* MaxLen symbols over FilterAlphabet and the texts of ScenarioTexts, with *)
(* _contains_english and _force_japanese_response applied to it.           *)
(***************************************************************************)
FilterAlphabet == {"p", "d", "f", "P", "D", "F", JaChar}

ScenarioTexts ==
    { <<"a", "b", "c", " ", "A", "B", "C">>,
      <<"p", "d", "f", " ", "P", "D", "F">>,
      <<"A", "P", "I", JaChar, "a", "u", JaChar, "D", "C">>,
      <<"p", "d", "f", JaChar, "a", "b", "c">>,
      <<"a", "u", "commerce", "P", "D", "F", "s">> }

FilterTexts == SeqsUpTo(FilterAlphabet, MaxLen) \cup ScenarioTexts

RewriteTexts == { <<JaChar>>, <<"x", "y", "z">> }

Ready ==
    /\ index = [docs |-> 1]
    /\ agent = QueryEngine
    /\ initialized = TRUE
    /\ messages = <<>>

InitFilter ==
    /\ Ready
    /\ op = "none"
    /\ arg \in FilterTexts
    /\ ret = <<>>
    /\ calls = <<>>
    /\ shown = <<>>

Detect ==
    /\ op' = "detect"
    /\ ret' = contains_english(arg)
    /\ calls' = <<>>
    /\ shown' = <<>>
    /\ UNCHANGED <<index, agent, initialized, messages, arg>>

Enforce ==
    /\ \E llm \in LlmOutcomes(RewriteTexts) :
         LET r == force_japanese_response(arg, llm)
         IN  /\ op' = "enforce"
             /\ ret' = r.ret
             /\ calls' = r.calls
             /\ shown' = r.shown
    /\ UNCHANGED <<index, agent, initialized, messages, arg>>

NextFilter == Detect \/ Enforce

SpecFilter == InitFilter /\ [][NextFilter]_vars

(***************************************************************************)
(* The Source Attributor on its own: _get_source_info applied to every     *)
(* retrieval outcome of at most SourceTopK nodes over Nodes.               *)
(***************************************************************************)
InitSources ==
    /\ Ready
    /\ op = "none"
    /\ arg \in {Ok(ns) : ns \in SeqsUpTo(Nodes, SourceTopK)}
                \cup {Raise(<<"retrieval failed">>)}
    /\ ret = <<>>
    /\ calls = <<>>
    /\ shown = <<>>

GetSourceInfo ==
    /\ \E question \in Questions :
         LET r == get_source_info(index, question, arg)
         IN  /\ op' = "sources"
             /\ ret' = r.ret
             /\ calls' = r.calls
             /\ shown' = r.shown
    /\ UNCHANGED <<index, agent, initialized, messages, arg>>

NextSources == GetSourceInfo

SpecSources == InitSources /\ [][NextSources]_vars

(***************************************************************************)
(* Properties of the session state machine (specification Spec).           *)
(***************************************************************************)
CallsOf(cs, fn) == SelectSeq(cs, LAMBDA c : c.fn = fn)
IndexCalls(cs) == SelectSeq(cs, LAMBDA c : c.fn \in {"query", "retrieve"})
FallbackCalls(cs) == SelectSeq(cs, LAMBDA c : c.fn = "query" /\ c.k = FallbackTopK)

\* the last handler was a submit whose primary query raised
PrimaryRaised ==
    /\ op = "submit"
    /\ Len(calls) > 0
    /\ calls[1].fn = "query" /\ calls[1].k = PrimaryTopK /\ ~calls[1].ok

FallbackRaised ==
    /\ PrimaryRaised
    /\ Len(FallbackCalls(calls)) > 0
    /\ ~FallbackCalls(calls)[1].ok

HasIterSignature(msg) ==
    Contains(msg, IterSignature1) \/ Contains(msg, IterSignature2)

\* C1: in every reachable state the session is initialized only with both the
\* index and the query engine present, a submit has run only in an initialized
\* session, and every query or retrieval call the last handler issued against
\* the index was issued with the index present.
C1_IndexExistsBeforeQuery ==
    /\ initialized => (index # NoneV /\ agent # NoneV)
    /\ op = "submit" => initialized
    /\ Len(IndexCalls(calls)) > 0 => index # NoneV

\* a submit in a Ready session that ran the primary query, the fallback query and the retrieval
C1_Witness ==
    /\ op = "submit"
    /\ initialized
    /\ Len(CallsOf(calls, "query")) = 2
    /\ Len(CallsOf(calls, "retrieve")) = 1

\* C2: an initialization attempt makes the session Ready only when the folder
\* exists, holds at least one file ending in ".pdf", the loader returned at
\* least one document and the index and engine were built; and an attempt on a
\* folder with no such file fails, stays Uninitialized and builds no index.
C2_ReadyOnlyAfterFullSuccess ==
    op = "init" =>
        /\ initialized =>
            /\ Len(CallsOf(calls, "exists")) = 1
            /\ CallsOf(calls, "exists")[1].out = TRUE
            /\ Len(CallsOf(calls, "listdir")) = 1
            /\ \E f \in CallsOf(calls, "listdir")[1].out : EndsWith(f, <<".pdf">>)
            /\ Len(CallsOf(calls, "load_data")) = 1
            /\ CallsOf(calls, "load_data")[1].ok
            /\ CallsOf(calls, "load_data")[1].out >= 1
            /\ Len(CallsOf(calls, "from_documents")) = 1
            /\ CallsOf(calls, "from_documents")[1].ok
        /\ ( /\ Len(CallsOf(calls, "listdir")) = 1
             /\ \A f \in CallsOf(calls, "listdir")[1].out : ~EndsWith(f, <<".pdf">>) )
           => /\ ~initialized
              /\ ret = FALSE
              /\ Len(CallsOf(calls, "from_documents")) = 0
              /\ \E i \in 1..Len(shown) : shown[i].kind = "error"

\* C3 as stated: whenever the primary query raised, the fallback query ran
\* exactly once, nothing was retried, and the returned string starts with the
\* direct-search marker.
C3_Original ==
    PrimaryRaised =>
        /\ Len(FallbackCalls(calls)) = 1
        /\ Len(CallsOf(calls, "query")) = 2
        /\ StartsWith(ret, DirectSearchMarker)

\* C3 (amended): whenever the primary query raised, whatever its message, the
\* fallback query ran exactly once and nothing was retried; the returned
\* string starts with the direct-search marker when the fallback query
\* succeeded, and is the search-error message with the fallback's exception
\* text, without the marker, when the fallback query raised too.
C3_FallbackOnce ==
    PrimaryRaised =>
        /\ Len(FallbackCalls(calls)) = 1
        /\ Len(CallsOf(calls, "query")) = 2
        /\ calls[2] = FallbackCalls(calls)[1]
        /\ calls[2].ok => StartsWith(ret, DirectSearchMarker)
        /\ ~calls[2].ok =>
            /\ ret = SearchError \o calls[2].out
            /\ ~StartsWith(ret, DirectSearchMarker)

\* a primary failure without iteration signature answered by the fallback
C3_Witness ==
    /\ PrimaryRaised
    /\ calls[1].out = <<"timeout">>
    /\ Len(FallbackCalls(calls)) = 1
    /\ FallbackCalls(calls)[1].ok
    /\ StartsWith(ret, DirectSearchMarker)

\* C4 as stated: the primary failure's exception text appears in a rendered
\* notification or in the returned answer only if the fallback failed too.
C4_Original ==
    PrimaryRaised =>
        ( ( \/ \E i \in 1..Len(shown) : Contains(shown[i].text, calls[1].out)
            \/ Contains(ret, calls[1].out) )
          => FallbackRaised )

\* C4 (amended): the primary failure's exception text is rendered to the user,
\* in an error notification, exactly when it carries no iteration-limit
\* signature, whether or not the fallback fails; with the signature the fixed
\* warning is rendered instead and no error notification.  When the fallback
\* fails too, the returned answer is the search-error message with the
\* fallback's exception text.
C4_PrimaryErrorShown ==
    PrimaryRaised =>
        /\ ~HasIterSignature(calls[1].out) =>
              shown[1] = Note("error", ErrorOccurred \o calls[1].out)
        /\ HasIterSignature(calls[1].out) =>
              /\ shown[1] = Note("warning", ReactSlowWarning)
              /\ \A i \in 1..Len(shown) : shown[i].kind # "error"
        /\ FallbackRaised => ret = SearchError \o FallbackCalls(calls)[1].out

\* a primary 'timeout' rendered to the user although the fallback succeeded
C4_Witness ==
    /\ PrimaryRaised
    /\ ~FallbackRaised
    /\ calls[1].out = <<"timeout">>
    /\ \E i \in 1..Len(shown) : Contains(shown[i].text, <<"timeout">>)

\* C10: after a failed initialization attempt the session is Uninitialized and
\* the chatbot's index and agent are both absent.
C10_NoPartialState ==
    (op = "init" /\ ret = FALSE) =>
        /\ ~initialized
        /\ index = NoneV
        /\ agent = NoneV

\* C8: a history clear in a Ready session empties the history and leaves the
\* session Ready, with the index unchanged and a query engine present,
\* whichever reset strategy runs and whether or not the engine rebuild
\* succeeds; the submit that follows a clear starts the history anew with its
\* own user turn as first entry; and no step leaves Ready.
C8_ClearKeepsReady ==
    [][ /\ op' = "clear" =>
            /\ initialized
            /\ messages' = <<>>
            /\ initialized'
            /\ index' = index
            /\ agent' # NoneV
        /\ (op = "clear" /\ op' = "submit") =>
            /\ messages'[1] = Turn("user", arg')
            /\ Len(messages') = 2
        /\ initialized => initialized'
      ]_vars

\* a clear whose reset attempt raised and whose engine rebuild failed
C8_Witness ==
    /\ op = "clear"
    /\ Len(calls) = 2
    /\ calls[1].fn = "memory.reset" /\ ~calls[1].ok
    /\ calls[2].fn = "as_query_engine" /\ ~calls[2].ok
    /\ initialized
    /\ agent # NoneV
    /\ messages = <<>>

Alternates(ms) ==
    /\ Len(ms) % 2 = 0
    /\ \A i \in 1..Len(ms) : ms[i].role = IF i % 2 = 1 THEN "user" ELSE "assistant"

\* the filtered answer and citation block expected from the calls cs of one
\* submit whose answering query (the nq-th call) succeeded
ExpectedAnswer(cs, nq, idx, question) ==
    LET raw == StrOf(cs[nq].out)
        filtered == IF ~contains_english(raw) THEN raw
                    ELSE IF cs[nq + 1].ok THEN cs[nq + 1].out.text ELSE raw
        last == cs[Len(cs)]
    IN  filtered \o Sep \o get_source_info(idx, question, [ok |-> last.ok, out |-> last.out]).ret

\* the order of the calls cs of one submit whose answering query (the nq-th
\* call) succeeded: the queries, the rewrite of the answer when it holds a
\* disallowed run, the retrieval
OrderedCalls(cs, nq, question) ==
    LET raw == StrOf(cs[nq].out)
        nc == IF contains_english(raw) THEN 1 ELSE 0
    IN  /\ Len(cs) = nq + nc + 1
        /\ nc = 1 => /\ cs[nq + 1].fn = "complete"
                     /\ cs[nq + 1].arg = translate_prompt(raw)
        /\ cs[Len(cs)].fn = "retrieve"
        /\ cs[Len(cs)].k = SourceTopK
        /\ cs[Len(cs)].arg = question

\* C9 as stated: every submit appended a user turn and an assistant turn, ran
\* the Source Attributor last, and the assistant turn's content ends with the
\* answer's separator and the citation block.
C9_Original ==
    op = "submit" =>
        /\ Len(messages) >= 2
        /\ messages[Len(messages) - 1] = Turn("user", arg)
        /\ messages[Len(messages)] = Turn("assistant", ret)
        /\ Len(CallsOf(calls, "retrieve")) = 1
        /\ calls[Len(calls)].fn = "retrieve"
        /\ EndsWith(ret, Sep \o get_source_info(index, arg,
                             [ok |-> calls[Len(calls)].ok,
                              out |-> calls[Len(calls)].out]).ret)

\* C9 (amended): every submit in Ready appends exactly one user turn and then
\* exactly one assistant turn, so the history alternates user, assistant.
\* Between the two it runs the primary query, the fallback query when the
\* primary raised, and then, unless both queries raised, the conformance
\* filter on the answer and the Source Attributor, in this order; the
\* assistant turn's content is the filtered answer followed by the citation
\* block (after the direct-search marker on the fallback path).  When both
\* queries raised, neither the filter nor the Source Attributor runs and the
\* content is the search-error message.
C9_SubmitTurns ==
    [][ op' = "submit" =>
            /\ initialized
            /\ messages' = messages \o <<Turn("user", arg'), Turn("assistant", ret')>>
            /\ Alternates(messages')
            /\ calls'[1].fn = "query" /\ calls'[1].k = PrimaryTopK
            /\ calls'[1].arg = arg'
            /\ IF calls'[1].ok
               THEN /\ OrderedCalls(calls', 1, arg')
                    /\ ret' = ExpectedAnswer(calls', 1, index, arg')
               ELSE /\ calls'[2].fn = "query" /\ calls'[2].k = FallbackTopK
                    /\ calls'[2].arg = arg'
                    /\ IF calls'[2].ok
                       THEN /\ OrderedCalls(calls', 2, arg')
                            /\ ret' = DirectSearchMarker
                                        \o ExpectedAnswer(calls', 2, index, arg')
                       ELSE /\ Len(calls') = 2
                            /\ ret' = SearchError \o calls'[2].out
      ]_vars

\* a second submit answered on the fallback path, rewritten and cited
C9_Witness ==
    /\ op = "submit"
    /\ Len(messages) = 4
    /\ Len(calls) = 4
    /\ ~calls[1].ok
    /\ calls[3].fn = "complete" /\ calls[3].ok
    /\ calls[4].fn = "retrieve" /\ calls[4].ok /\ Len(calls[4].out) = 1

(***************************************************************************)
(* Properties of the Language Conformance Filter (specification            *)
(* SpecFilter).                                                            *)
(***************************************************************************)
\* the reference rule: text holds a maximal run of 3 or more ASCII letters
\* that is not an allow-list entry
DisallowedRun(text) ==
    \E i \in 1..Len(text) : \E j \in i..Len(text) :
        /\ j - i + 1 >= 3
        /\ \A k \in i..j : text[k] \in Lower \cup Upper
        /\ i = 1 \/ text[i - 1] \notin Lower \cup Upper
        /\ j = Len(text) \/ text[j + 1] \notin Lower \cup Upper
        /\ SubSeq(text, i, j) \notin japanese_exceptions

\* C5: the detection result equals the reference rule for every text, and
\* enforcing a text without a disallowed run returns it unchanged and issues
\* no rewrite call.
C5_DetectionRule ==
    /\ op = "detect" => ret = DisallowedRun(arg)
    /\ (op = "enforce" /\ ~DisallowedRun(arg)) => (ret = arg /\ calls = <<>>)

\* a text whose only runs are allow-list entries, enforced
C5_Witness ==
    /\ op = "enforce"
    /\ arg = <<"p", "d", "f", " ", "P", "D", "F">>
    /\ ret = arg
    /\ calls = <<>>

\* C6: enforcing a text with a disallowed run issues exactly one rewrite call,
\* on the prompt built from the text; when the call returns, the result is its
\* output as it is (also when the output still holds a disallowed run) and
\* nothing is rendered; when the call raises, the result is the original text
\* and one warning with the exception text is rendered.
C6_RewriteOnce ==
    (op = "enforce" /\ DisallowedRun(arg)) =>
        /\ Len(calls) = 1
        /\ calls[1].fn = "complete"
        /\ calls[1].arg = translate_prompt(arg)
        /\ calls[1].ok => (ret = calls[1].out.text /\ shown = <<>>)
        /\ ~calls[1].ok =>
            /\ ret = arg
            /\ shown = <<Note("warning", TranslateWarning \o calls[1].out)>>

\* the scenario text rewritten once into a text that still holds a disallowed run
C6_Witness ==
    /\ op = "enforce"
    /\ arg = <<"a", "b", "c", " ", "A", "B", "C">>
    /\ Len(calls) = 1
    /\ calls[1].ok
    /\ ret = <<"x", "y", "z">>

(***************************************************************************)
(* Properties of the Source Attributor (specification SpecSources).        *)
(***************************************************************************)
RECURSIVE SplitLines(_)
SplitLines(s) ==
    IF \A i \in 1..Len(s) : s[i] # NL THEN <<s>>
    ELSE LET i == CHOOSE k \in 1..Len(s) :
                      s[k] = NL /\ \A m \in 1..(k - 1) : s[m] # NL
         IN  <<SubSeq(s, 1, i - 1)>> \o SplitLines(SubSeq(s, i + 1, Len(s)))

\* C7 as stated: with zero matches the output is the no-documents message;
\* otherwise the output has as many lines as there are matches and its i-th
\* line starts with the rank i.
C7_Original ==
    (op = "sources" /\ arg.ok) =>
        /\ Len(arg.out) = 0 => ret = NoSourcesMsg
        /\ Len(arg.out) > 0 =>
            /\ Len(SplitLines(ret)) = Len(arg.out)
            /\ \A i \in 1..Len(arg.out) : SplitLines(ret)[i][1] = ToString(i)

\* C7 (amended): with zero matches the output is the no-documents message;
\* otherwise the output is the fixed header line followed by as many lines as
\* there are matches (at most 3), and the i-th line after the header starts
\* with the rank i of the i-th match and names that match's document.
C7_SourceLines ==
    (op = "sources" /\ arg.ok) =>
        /\ calls = <<Call("retrieve", 3, calls[1].arg, TRUE, arg.out)>>
        /\ Len(arg.out) <= 3
        /\ Len(arg.out) = 0 => ret = NoSourcesMsg
        /\ Len(arg.out) > 0 =>
            /\ Len(SplitLines(ret)) = Len(arg.out) + 1
            /\ SplitLines(ret)[1] = SourcesHeader
            /\ \A i \in 1..Len(arg.out) :
                 /\ SplitLines(ret)[i + 1][1] = ToString(i)
                 /\ SplitLines(ret)[i + 1][3] =
                        Get(arg.out[i].metadata, "file_name", UnknownDocument)

\* three matches formatted under the header
C7_Witness ==
    /\ op = "sources"
    /\ arg.ok
    /\ Len(arg.out) = 3
    /\ Len(SplitLines(ret)) = 4

====
